---------------------------- MODULE Spec2Model ----------------------------
(***************************************************************************)
(* A model of the MLopsLab preprocessing library (src/src/preprocessing.py) *)
(* and of its command line wrapper (src/src/cli.py).                        *)
(*                                                                          *)
(* Python values are records [k, n, d, s]: k is the runtime type, n/d the   *)
(* value of a number, s the characters of a string (a sequence of one       *)
(* character tokens).  A call of a library function ends in an outcome      *)
(* [ok, err, val]: the value returned, or the exception raised.             *)
(***************************************************************************)
EXTENDS Integers, Sequences, FiniteSets, TLC

VARIABLES
    gen,      \* state of the process-wide generator of module random
    call,     \* the library call being made / made last
    ret,      \* its outcome
    pc,       \* position of the caller
    watch,    \* an earlier seeded lst_shuffle call, kept to compare with
    th,       \* the threads running lst_shuffle concurrently
    worlds,   \* every generator state the process may be in, over all entropy
    heap,     \* the list objects of the process: object id -> contents
    refs      \* the caller's references: data, result, and data's old contents

vars == <<gen, call, ret, pc, watch, th, worlds, heap, refs>>

(***************************************************************************)
(* Bounds of the model.                                                     *)
(***************************************************************************)
MaxLen == 3        \* longest input list
MaxNum == 2        \* numbers range over -MaxNum .. MaxNum
GenStates == 6     \* number of states of the abstract generator
MaxSeed == 2       \* seeds range over 0 .. MaxSeed
MaxText == 4       \* longest text, in characters
FloatMax == 4      \* largest finite float (sys.float_info.max, scaled down)

Nums == (0 - MaxNum) .. MaxNum

(***************************************************************************)
(* Python values.                                                           *)
(***************************************************************************)
None == [k |-> "none", n |-> 0, d |-> 1, s |-> <<>>]
NaN == [k |-> "nan", n |-> 0, d |-> 1, s |-> <<>>]
PyInt(i) == [k |-> "int", n |-> i, d |-> 1, s |-> <<>>]
PyFloat(a, b) == [k |-> "float", n |-> a, d |-> b, s |-> <<>>]
PyStr(cs) == [k |-> "str", n |-> 0, d |-> 1, s |-> cs]
\* A nested list and a tuple hold their items in s.
PyList(items) == [k |-> "list", n |-> 0, d |-> 1, s |-> items]
PyTuple(items) == [k |-> "tuple", n |-> 0, d |-> 1, s |-> items]
\* math.log(a / b), and sign(a) * sqrt(|a| / b): the irrational results.
PyLog(a, b) == [k |-> "log", n |-> a, d |-> b, s |-> <<>>]
PySqrt(a, b) == [k |-> "sqrt", n |-> a, d |-> b, s |-> <<>>]
\* float('inf') (sg = 1) and float('-inf') (sg = -1), which float arithmetic
\* yields on overflow.
Inf(sg) == [k |-> "inf", n |-> sg, d |-> 1, s |-> <<>>]

IsNumber(v) == v.k \in {"int", "float", "nan"}

\* Outcomes of a call: same is TRUE when the object returned is the
\* argument `data` itself, not a new list.
Return(v) == [ok |-> TRUE, err |-> "none", val |-> v, same |-> FALSE]
ReturnArg(v) == [ok |-> TRUE, err |-> "none", val |-> v, same |-> TRUE]
Raise(e) == [ok |-> FALSE, err |-> e, val |-> <<>>, same |-> FALSE]
NoRet == [ok |-> FALSE, err |-> "pending", val |-> <<>>, same |-> FALSE]

\* All sequences over S of length at most n.
SeqUpTo(S, n) == UNION {[1 .. m -> S] : m \in 0 .. n}

\* Code point order of the characters the model uses ("tab" stands for the
\* tabulator, "sup2" for the superscript two, U+00B2).
Alphabet == <<"tab", " ", "!", ",", ".", "1", "2", "A", "a", "b", "sup2">>
Ord(c) == CHOOSE i \in 1 .. Len(Alphabet) : Alphabet[i] = c

RECURSIVE StrLt(_, _)
StrLt(a, b) ==
    IF b = <<>> THEN FALSE
    ELSE IF a = <<>> THEN TRUE
    ELSE IF Ord(Head(a)) # Ord(Head(b)) THEN Ord(Head(a)) < Ord(Head(b))
    ELSE StrLt(Tail(a), Tail(b))

\* a < b raises TypeError unless both are numbers or both are strings.
Orderable(a, b) == (IsNumber(a) /\ IsNumber(b)) \/ (a.k = "str" /\ b.k = "str")
Lt(a, b) ==
    IF a.k = "str" THEN StrLt(a.s, b.s)
    ELSE IF a.k = "nan" \/ b.k = "nan" THEN FALSE
    ELSE a.n * b.d < b.n * a.d

\* The builtins min(a, b) and max(a, b): the first argument unless the second
\* is strictly smaller (larger).
PyMin2(a, b) == IF Lt(b, a) THEN b ELSE a
PyMax2(a, b) == IF Lt(a, b) THEN b ELSE a

(***************************************************************************)
(* clean_values and fill_values.                                            *)
(***************************************************************************)
\* isinstance(item, float) or isinstance(item, int); math.isnan(item).
IsFloatOrInt(item) == item.k \in {"int", "float", "nan"}
IsNan(item) == item.k = "nan"

\* The items clean_values skips (lines 31-34).
CleanSkipsMutant(item) == item.k = "none" \/ (IsFloatOrInt(item) /\ IsNan(item))
CleanSkips(item) ==
    \/ item.k = "none" \/ (item.k = "str" /\ item.s = <<>>)
    \/ (IsFloatOrInt(item) /\ IsNan(item))

\* The items fill_values replaces (lines 63-66).
FillReplaces(item) ==
    \/ item.k = "none" \/ (item.k = "str" /\ item.s = <<>>)
    \/ (IsFloatOrInt(item) /\ IsNan(item))

RECURSIVE clean_values(_)
clean_values(data) ==
    IF data = <<>> THEN <<>>
    ELSE IF CleanSkips(Head(data)) THEN clean_values(Tail(data))
    ELSE <<Head(data)>> \o clean_values(Tail(data))

RECURSIVE fill_values(_, _)
fill_values(data, fill_value) ==
    IF data = <<>> THEN <<>>
    ELSE IF FillReplaces(Head(data))
         THEN <<fill_value>> \o fill_values(Tail(data), fill_value)
         ELSE <<Head(data)>> \o fill_values(Tail(data), fill_value)

(***************************************************************************)
(* clip_values.                                                             *)
(***************************************************************************)
ClipItemMutant(item, lo, hi) == PyMin2(PyMax2(item, lo), hi)
ClipItemStep(item, lo, hi) ==
    IF Lt(hi, item) THEN [item EXCEPT !.n = item.n - item.d] ELSE PyMax2(item, lo)
ClipItem(item, lo, hi) == PyMax2(PyMin2(item, hi), lo)

\* min(item, max_threshold) compares max_threshold with item, and max(..,
\* min_threshold) compares the outcome with min_threshold.
ClipItemRaises(item, lo, hi) ==
    \/ ~Orderable(hi, item)
    \/ ~Orderable(PyMin2(item, hi), lo)

clip_values(data, min_threshold, max_threshold) ==
    IF \E i \in 1 .. Len(data) : ClipItemRaises(data[i], min_threshold, max_threshold)
    THEN Raise("TypeError")
    ELSE Return([i \in 1 .. Len(data) |->
                    ClipItem(data[i], min_threshold, max_threshold)])

(***************************************************************************)
(* Arithmetic on numbers.  A float is the exact rational n/d (d > 0, in     *)
(* lowest terms): the rounding of the machine's doubles is not modelled,    *)
(* their finite range is (a difference beyond FloatMax is an infinity).     *)
(* An int has no range.                                                     *)
(***************************************************************************)
Abs(a) == IF a < 0 THEN 0 - a ELSE a

RECURSIVE Gcd(_, _)
Gcd(a, b) == IF b = 0 THEN a ELSE Gcd(b, a % b)

\* The float a / b, for b # 0.
Ratio(a, b) ==
    LET g == Gcd(Abs(a), Abs(b))
        sg == IF b < 0 THEN 0 - 1 ELSE 1
    IN  PyFloat((sg * a) \div g, (sg * b) \div g)

\* a == b
PyEq(a, b) ==
    IF IsNumber(a) /\ IsNumber(b)
    THEN a.k # "nan" /\ b.k # "nan" /\ a.n * b.d = b.n * a.d
    ELSE a = b

\* The float of the exact value a / b (b > 0): an infinity beyond FloatMax.
FloatOf(a, b) ==
    IF a > FloatMax * b THEN Inf(1)
    ELSE IF 0 - a > FloatMax * b THEN Inf(0 - 1)
    ELSE Ratio(a, b)

\* a - b on finite numbers or NaN: an int for two ints, else a float (NaN
\* when an operand is NaN).
Sub(a, b) ==
    IF a.k = "nan" \/ b.k = "nan" THEN NaN
    ELSE IF a.k = "int" /\ b.k = "int" THEN PyInt(a.n - b.n)
    ELSE FloatOf(a.n * b.d - b.n * a.d, a.d * b.d)

\* a / b for b # 0, on the outcomes of Sub: inf / inf is NaN, a finite
\* number over an infinity is 0.0 (the sign of a zero is not modelled).
TrueDiv(a, b) ==
    IF a.k = "nan" \/ b.k = "nan" THEN NaN
    ELSE IF a.k = "inf" /\ b.k = "inf" THEN NaN
    ELSE IF b.k = "inf" THEN PyFloat(0, 1)
    ELSE IF a.k = "inf" THEN Inf(IF b.n < 0 THEN 0 - a.n ELSE a.n)
    ELSE Ratio(a.n * b.d, a.d * b.n)

\* min(data) and max(data) of a non-empty list: the running minimum is
\* compared with each later item, which raises TypeError for a pair that has
\* no order.
RECURSIVE MinFrom(_, _, _)
MinFrom(data, i, m) ==
    IF i > Len(data) THEN Return(m)
    ELSE IF ~Orderable(data[i], m) THEN Raise("TypeError")
    ELSE MinFrom(data, i + 1, IF Lt(data[i], m) THEN data[i] ELSE m)
PyMin(data) == MinFrom(data, 2, data[1])

RECURSIVE MaxFrom(_, _, _)
MaxFrom(data, i, m) ==
    IF i > Len(data) THEN Return(m)
    ELSE IF ~Orderable(data[i], m) THEN Raise("TypeError")
    ELSE MaxFrom(data, i + 1, IF Lt(m, data[i]) THEN data[i] ELSE m)
PyMax(data) == MaxFrom(data, 2, data[1])

Zeros(data) == [i \in 1 .. Len(data) |-> PyFloat(0, 1)]

(***************************************************************************)
(* minmax_normalize: min_val and max_val are overwritten by the minimum and *)
(* maximum of data before they are read.                                    *)
(***************************************************************************)
NormalizeItem(item, lo, hi) == TrueDiv(Sub(item, lo), Sub(hi, lo))

minmax_normalize(data, min_val, max_val) ==
    IF data = <<>> THEN ReturnArg(data)
    ELSE IF ~PyMin(data).ok THEN Raise("TypeError")
    ELSE LET lo == PyMin(data).val
             hi == PyMax(data).val
         IN  IF PyEq(lo, hi) THEN Return(Zeros(data))
             ELSE IF \E i \in 1 .. Len(data) : ~IsNumber(data[i])
                  THEN Raise("TypeError")
                  ELSE Return([i \in 1 .. Len(data) |-> NormalizeItem(data[i], lo, hi)])

(***************************************************************************)
(* z_score_standardize.  With N = len(data), S = sum(data) and              *)
(* V = sum((N * item - S) ** 2), the variance is V / N**3 and the result    *)
(* for item is sign(N * item - S) * sqrt(N * (N * item - S) ** 2 / V).      *)
(***************************************************************************)
RECURSIVE SumInts(_)
SumInts(x) == IF x = <<>> THEN 0 ELSE Head(x) + SumInts(Tail(x))

Sign(a) == IF a < 0 THEN 0 - 1 ELSE IF a > 0 THEN 1 ELSE 0

\* sign(a) * sqrt(|a| / b) for b > 0, a float when the root is rational 0.
SqrtRatio(a, b) ==
    IF a = 0 THEN PyFloat(0, 1)
    ELSE LET g == Gcd(Abs(a), b) IN PySqrt(a \div g, b \div g)

\* The items over their common denominator: the result does not change when
\* every item is multiplied by the same positive number.
RECURSIVE ProductOf(_)
ProductOf(x) == IF x = <<>> THEN 1 ELSE Head(x) * ProductOf(Tail(x))

Scaled(data) ==
    LET D == ProductOf([i \in 1 .. Len(data) |-> data[i].d])
    IN  [i \in 1 .. Len(data) |-> data[i].n * (D \div data[i].d)]

\* sum(data) raises TypeError at an item that is no number.
z_score_standardize(data) ==
    IF data = <<>> THEN ReturnArg(data)
    ELSE IF \E i \in 1 .. Len(data) : ~IsNumber(data[i])
         THEN Raise("TypeError")
         ELSE IF \E i \in 1 .. Len(data) : data[i].k = "nan"
              THEN Return([i \in 1 .. Len(data) |-> NaN])
              ELSE LET N == Len(data)
                       a == Scaled(data)
                       S == SumInts(a)
                       dev == [i \in 1 .. N |-> N * a[i] - S]
                       V == SumInts([i \in 1 .. N |-> dev[i] * dev[i]])
                   IN  IF V = 0 THEN Return(Zeros(data))
                       ELSE Return([i \in 1 .. N |->
                               SqrtRatio(Sign(dev[i]) * N * dev[i] * dev[i], V)])

(***************************************************************************)
(* remove_duplicates: list(set(data)).  Building the set hashes every item, *)
(* which raises TypeError for a list; the order of a set is arbitrary.      *)
(***************************************************************************)
Hashable(v) == v.k # "list"
Items(data) == {data[i] : i \in 1 .. Len(data)}
Orderings(S) ==
    {x \in [1 .. Cardinality(S) -> S] : \A i, j \in DOMAIN x : i # j => x[i] # x[j]}

\* The outcomes remove_duplicates(data) may have.
remove_duplicates(data) ==
    IF \E i \in 1 .. Len(data) : ~Hashable(data[i])
    THEN {Raise("TypeError")}
    ELSE {Return(x) : x \in Orderings(Items(data))}

(***************************************************************************)
(* lst_to_ints: [int(item) for item in data if item.isdigit()].             *)
(***************************************************************************)
\* str.isdigit() holds of the decimal digits and of digit characters such as
\* the superscript two; int() accepts the decimal digits only.
DecimalDigits == {"1", "2"}
DigitChars == DecimalDigits \cup {"sup2"}
DigitValue(c) == IF c = "1" THEN 1 ELSE 2

IsDigitStr(cs) == cs # <<>> /\ \A i \in 1 .. Len(cs) : cs[i] \in DigitChars
IsDecimalStr(cs) == cs # <<>> /\ \A i \in 1 .. Len(cs) : cs[i] \in DecimalDigits

RECURSIVE IntOfDigits(_)
IntOfDigits(cs) ==
    IF cs = <<>> THEN 0
    ELSE 10 * IntOfDigits(SubSeq(cs, 1, Len(cs) - 1)) + DigitValue(cs[Len(cs)])

\* int(item) for a string that passed isdigit().
IntRaises(item) == ~IsDecimalStr(item.s)

RECURSIVE ToIntsFrom(_)
ToIntsFrom(data) ==
    IF data = <<>> THEN <<>>
    ELSE IF IsDigitStr(Head(data).s)
         THEN <<PyInt(IntOfDigits(Head(data).s))>> \o ToIntsFrom(Tail(data))
         ELSE ToIntsFrom(Tail(data))

lst_to_ints(data) ==
    IF \E i \in 1 .. Len(data) : data[i].k # "str"
    THEN Raise("AttributeError")
    ELSE IF \E i \in 1 .. Len(data) : IsDigitStr(data[i].s) /\ IntRaises(data[i])
         THEN Raise("ValueError")
         ELSE Return(ToIntsFrom(data))

(***************************************************************************)
(* log_transform: [math.log(item) for item in data if item > 0].            *)
(***************************************************************************)
LogOf(item) == IF item.n = item.d THEN PyFloat(0, 1) ELSE PyLog(item.n, item.d)

RECURSIVE LogFrom(_)
LogFrom(data) ==
    IF data = <<>> THEN <<>>
    ELSE IF Lt(PyInt(0), Head(data))
         THEN <<LogOf(Head(data))>> \o LogFrom(Tail(data))
         ELSE LogFrom(Tail(data))

log_transform(data) ==
    IF \E i \in 1 .. Len(data) : ~IsNumber(data[i])
    THEN Raise("TypeError")
    ELSE Return(LogFrom(data))

(***************************************************************************)
(* lst_flatten: [item for sublist in nested_list for item in sublist].      *)
(***************************************************************************)
\* Iterating a list or tuple yields its items, a string its characters as
\* strings; anything else is not iterable.
Iterable(v) == v.k \in {"list", "tuple", "str"}
IterItems(v) ==
    IF v.k = "str" THEN [i \in 1 .. Len(v.s) |-> PyStr(<<v.s[i]>>)] ELSE v.s

RECURSIVE FlattenFrom(_)
FlattenFrom(nested) ==
    IF nested = <<>> THEN <<>>
    ELSE IterItems(Head(nested)) \o FlattenFrom(Tail(nested))

lst_flatten(nested_list) ==
    IF \E i \in 1 .. Len(nested_list) : ~Iterable(nested_list[i])
    THEN Raise("TypeError")
    ELSE Return(FlattenFrom(nested_list))

(***************************************************************************)
(* The text functions.  A text is a string value; its characters are        *)
(* classified as the str methods and the regular expressions classify them. *)
(***************************************************************************)
IsSpace(c) == c \in {" ", "tab"}                         \* \s, str.split()
IsAsciiAlnum(c) == c \in {"1", "2", "A", "a", "b"}       \* [a-zA-Z0-9]
IsWordChar(c) == IsAsciiAlnum(c) \/ c = "sup2"           \* \w
LowerChar(c) == IF c = "A" THEN "a" ELSE c
LowerMutant(cs) == cs
Lower(cs) == [i \in 1 .. Len(cs) |-> LowerChar(cs[i])]

\* text.split(): the maximal runs of characters that are not whitespace.
\* cur is the run being read.
RECURSIVE SplitFrom(_, _)
SplitFrom(cs, cur) ==
    IF cs = <<>> THEN (IF cur = <<>> THEN <<>> ELSE <<cur>>)
    ELSE IF IsSpace(Head(cs))
         THEN (IF cur = <<>> THEN <<>> ELSE <<cur>>) \o SplitFrom(Tail(cs), <<>>)
         ELSE SplitFrom(Tail(cs), Append(cur, Head(cs)))
Split(cs) == SplitFrom(cs, <<>>)

\* " ".join(words)
RECURSIVE Join(_)
Join(words) ==
    IF words = <<>> THEN <<>>
    ELSE IF Len(words) = 1 THEN words[1]
    ELSE words[1] \o <<" ">> \o Join(Tail(words))

\* re.findall(r"\b\w+\b", s): the maximal runs of word characters.
RECURSIVE WordsFrom(_, _)
WordsFrom(cs, cur) ==
    IF cs = <<>> THEN (IF cur = <<>> THEN <<>> ELSE <<PyStr(cur)>>)
    ELSE IF ~IsWordChar(Head(cs))
         THEN (IF cur = <<>> THEN <<>> ELSE <<PyStr(cur)>>) \o WordsFrom(Tail(cs), <<>>)
         ELSE WordsFrom(Tail(cs), Append(cur, Head(cs)))

\* text.lower() raises AttributeError for a value that is no string.
special_tokenization(text) ==
    IF text.k # "str" THEN Raise("AttributeError")
    ELSE Return(WordsFrom(Lower(text.s), <<>>))

\* re.sub(r"[^a-zA-Z0-9\s]", "", text)
KeepAlnumSpace(cs) == SelectSeq(cs, LAMBDA c : IsAsciiAlnum(c) \/ IsSpace(c))

\* re.sub raises TypeError for a value that is no string; collapsing the
\* whitespace runs to one space and stripping leaves the words joined by
\* single spaces.
clean_text(text) ==
    IF text.k # "str" THEN Raise("TypeError")
    ELSE Return(PyStr(Join(Split(KeepAlnumSpace(text.s)))))

\* text.split() raises AttributeError for a value that is no string.
clean_stop_words(text, stopwords) ==
    IF text.k # "str" THEN Raise("AttributeError")
    ELSE LET words == Split(text.s)
         IN  Return(PyStr(Join(SelectSeq(words, LAMBDA word : Lower(word) \notin stopwords))))

(***************************************************************************)
(* The process-wide generator of module random, and lst_shuffle.            *)
(*                                                                          *)
(* The generator is a deterministic automaton: random.seed(K) puts it in a  *)
(* state that depends on K alone, every draw returns a function of the      *)
(* state and moves to the next state.  At import it is seeded from the      *)
(* operating system's entropy: any state.  The automaton here is a counter  *)
(* modulo GenStates whose draw below n is the state modulo n; the claims    *)
(* rest on the generator being deterministic and shared, not on its law.    *)
(***************************************************************************)
GenState == 0 .. (GenStates - 1)

RandomSeed(seed) == seed.n % GenStates
GenStep(g) == (g + 1) % GenStates
\* random._randbelow(n): a number in 0 .. n-1.
RandBelow(g, n) == g % n

SwapMutant(x, i, j) == [x EXCEPT ![i] = x[j]]
Swap(x, i, j) == [x EXCEPT ![i] = x[j], ![j] = x[i]]

\* An iteration that draws j below the position itself, never the position.
ShuffleIterBelow(g, x, i) ==
    [gen |-> GenStep(g), x |-> Swap(x, i, RandBelow(g, i - 1) + 1)]

\* One iteration of random.shuffle's loop, at (1-based) position i:
\* j = randbelow(i + 1); x[i], x[j] = x[j], x[i].
ShuffleIter(g, x, i) == [gen |-> GenStep(g), x |-> Swap(x, i, RandBelow(g, i) + 1)]

\* random.shuffle(x): for i in reversed(range(1, len(x))), here i = Len(x) .. 2.
RECURSIVE ShuffleFrom(_, _, _)
ShuffleFrom(g, x, i) ==
    IF i < 2 THEN [gen |-> g, x |-> x]
    ELSE LET r == ShuffleIter(g, x, i) IN ShuffleFrom(r.gen, r.x, i - 1)

RandomShuffle(g, x) == ShuffleFrom(g, x, Len(x))

\* if seed is not None: random.seed(seed)
SeededMutant(seed) == seed.k # "none" /\ seed.n # 0
Seeded(seed) == seed.k # "none"

\* lst_shuffle(data, seed) run from generator state g: the state it leaves the
\* generator in, and the list it returns.
lst_shuffle(g, data, seed) ==
    LET g1 == IF Seeded(seed) THEN RandomSeed(seed) ELSE g
        shuffled_data == data
        r == RandomShuffle(g1, shuffled_data)
    IN  [gen |-> r.gen, val |-> r.x]

(***************************************************************************)
(* SpecLib: one call of a library function on inputs drawn from bounded     *)
(* sets.  Init draws the call, the function's action applies it.            *)
(***************************************************************************)
NumVals == {PyInt(i) : i \in Nums}
MixedVals == {None, NaN, PyStr(<<>>), PyStr(<<"a">>), PyInt(0), PyInt(1)}
FillVals == {PyInt(0), PyInt(1), PyStr(<<"b">>)}
NormArgs == {PyInt(0), PyInt(1)}
\* Finite numbers for minmax_normalize: ints, a fraction and the two floats
\* of largest magnitude.
NormVals == NumVals \cup {PyFloat(1, 2), PyFloat(FloatMax, 1), PyFloat(0 - FloatMax, 1)}
LogVals == NumVals \cup {PyFloat(1, 2), NaN}
TokenStrs == {PyStr(cs) : cs \in {<<>>, <<"1">>, <<"1", "2">>, <<"a">>, <<"2", "a">>,
                                  <<"sup2">>}}
DedupVals == {PyInt(1), PyInt(2), PyStr(<<"a">>), PyList(<<PyInt(1)>>)}
NestedVals == {PyList(<<>>), PyList(<<PyInt(1)>>), PyList(<<PyInt(1), PyInt(2)>>),
               PyList(<<PyList(<<PyInt(1)>>)>>)}
TextChars == {"a", "A", ".", " ", "tab"}
Texts == {PyStr(cs) : cs \in SeqUpTo(TextChars, MaxText)}
StopwordSets == SUBSET {<<"a">>, <<"A">>, <<"a", ".">>}

LibCall(f, data, a, b) == [f |-> f, data |-> data, a |-> a, b |-> b]

\* The variables a specification does not use.
Unused(v) == v = "unused"

LibInit ==
    /\ pc = "call"
    /\ ret = NoRet
    /\ Unused(gen) /\ Unused(watch) /\ Unused(th) /\ Unused(worlds)
    /\ Unused(heap) /\ Unused(refs)
    /\ \/ \E data \in SeqUpTo(MixedVals, MaxLen) :
            call = LibCall("clean_values", data, None, None)
       \/ \E data \in SeqUpTo(MixedVals, MaxLen), f \in FillVals :
            call = LibCall("fill_values", data, f, None)
       \/ \E data \in SeqUpTo(NumVals, MaxLen), lo \in NumVals, hi \in NumVals :
            call = LibCall("clip_values", data, lo, hi)
       \/ \E data \in SeqUpTo(DedupVals, MaxLen) :
            call = LibCall("remove_duplicates", data, None, None)
       \/ \E data \in SeqUpTo(NormVals, MaxLen), lo \in NormArgs, hi \in NormArgs :
            call = LibCall("minmax_normalize", data, lo, hi)
       \/ \E data \in SeqUpTo(NumVals, MaxLen) :
            call = LibCall("z_score_standardize", data, None, None)
       \/ \E data \in SeqUpTo(TokenStrs, MaxLen) :
            call = LibCall("lst_to_ints", data, None, None)
       \/ \E data \in SeqUpTo(LogVals, MaxLen) :
            call = LibCall("log_transform", data, None, None)
       \/ \E data \in SeqUpTo(NestedVals, MaxLen) :
            call = LibCall("lst_flatten", data, None, None)
       \/ \E text \in Texts :
            call = LibCall("special_tokenization", text, None, None)
       \/ \E text \in Texts :
            call = LibCall("clean_text", text, None, None)
       \/ \E text \in Texts, stopwords \in StopwordSets :
            call = LibCall("clean_stop_words", text, stopwords, None)

LibFrame == UNCHANGED <<gen, call, watch, th, worlds, heap, refs>>

\* A call of f ending in the outcome out.
LibReturn(f, out) ==
    /\ pc = "call" /\ call.f = f
    /\ ret' = out
    /\ pc' = "done"
    /\ LibFrame

CleanCall == LibReturn("clean_values", Return(clean_values(call.data)))
FillCall == LibReturn("fill_values", Return(fill_values(call.data, call.a)))
ClipCall == LibReturn("clip_values", clip_values(call.data, call.a, call.b))
\* The caller clips the list returned once more with the same thresholds;
\* watch keeps the outcome of the first call.
ClipAgainCall ==
    /\ pc = "done" /\ call.f = "clip_values" /\ ret.ok
    /\ watch' = ret
    /\ ret' = clip_values(ret.val, call.a, call.b)
    /\ pc' = "again"
    /\ UNCHANGED <<gen, call, th, worlds, heap, refs>>
DedupCall ==
    /\ call.f = "remove_duplicates"
    /\ \E out \in remove_duplicates(call.data) : LibReturn("remove_duplicates", out)
NormalizeCall ==
    LibReturn("minmax_normalize", minmax_normalize(call.data, call.a, call.b))
StandardizeCall == LibReturn("z_score_standardize", z_score_standardize(call.data))
ToIntsCall == LibReturn("lst_to_ints", lst_to_ints(call.data))
LogCall == LibReturn("log_transform", log_transform(call.data))
FlattenCall == LibReturn("lst_flatten", lst_flatten(call.data))
TokenizeCall == LibReturn("special_tokenization", special_tokenization(call.data))
CleanTextCall == LibReturn("clean_text", clean_text(call.data))
StopWordsCall == LibReturn("clean_stop_words", clean_stop_words(call.data, call.a))

LibNext ==
    \/ CleanCall \/ FillCall \/ ClipCall \/ ClipAgainCall \/ DedupCall
    \/ NormalizeCall
    \/ StandardizeCall \/ ToIntsCall \/ LogCall \/ FlattenCall
    \/ TokenizeCall \/ CleanTextCall \/ StopWordsCall

SpecLib == LibInit /\ [][LibNext]_vars

Returned(f) == pc = "done" /\ call.f = f

(***************************************************************************)
(* C1: clip_values(data, min_threshold, max_threshold) returns a list of    *)
(* the length of data, every element within the two thresholds, and equal   *)
(* to data[i] where data[i] already lies within them - for every pair of    *)
(* thresholds.  As stated the claim fails when min_threshold >              *)
(* max_threshold (C1_Original); it holds when min_threshold <=              *)
(* max_threshold, and otherwise every element is min_threshold              *)
(* (C1_ClipWithinOrderedThresholds).                                        *)
(***************************************************************************)
Le(a, b) == ~Lt(b, a)

ClipPost(data, lo, hi, out) ==
    /\ Len(out) = Len(data)
    /\ \A i \in 1 .. Len(data) :
        /\ Le(lo, out[i]) /\ Le(out[i], hi)
        /\ (Le(lo, data[i]) /\ Le(data[i], hi)) => out[i] = data[i]

C1_Original ==
    Returned("clip_values") => ret.ok /\ ClipPost(call.data, call.a, call.b, ret.val)

C1_ClipWithinOrderedThresholds ==
    Returned("clip_values") =>
        /\ ret.ok
        /\ Len(ret.val) = Len(call.data)
        /\ Le(call.a, call.b) => ClipPost(call.data, call.a, call.b, ret.val)
        /\ Lt(call.b, call.a) => \A i \in 1 .. Len(ret.val) : ret.val[i] = call.a

C1_Witness ==
    /\ Returned("clip_values")
    /\ Len(call.data) = MaxLen
    /\ Lt(call.a, call.b)
    /\ \E i, j, m \in 1 .. Len(call.data) :
        /\ Lt(call.data[i], call.a) /\ ret.val[i] = call.a
        /\ Lt(call.b, call.data[j]) /\ ret.val[j] = call.b
        /\ Lt(call.a, call.data[m]) /\ Lt(call.data[m], call.b)
        /\ ret.val[m] = call.data[m]

(***************************************************************************)
(* C7: fill_values and clean_values classify elements identically:          *)
(* fill_values(data, f) has the length of data, holds f at the positions    *)
(* where data[i] is None, the empty string or a NaN number and data[i]      *)
(* elsewhere, and clean_values(data) is the subsequence of data, in order,  *)
(* at the positions fill_values did not replace.                            *)
(***************************************************************************)
Missing(v) == v = None \/ v = PyStr(<<>>) \/ v = NaN
Present(v) == ~Missing(v)

C9_LibraryTotal == pc = "done" => ret.ok

(***************************************************************************)
(* C10: clean_stop_words(text, stopwords) is the whitespace-separated       *)
(* tokens of text, in order and in their original case, joined by single    *)
(* spaces, a token being kept exactly when its lowercased form is not in    *)
(* stopwords: punctuation attached to a token is part of it, a capitalised  *)
(* token goes when its lowercase form is a stopword, and a stopword with an *)
(* upper case letter removes nothing.                                       *)
(***************************************************************************)
HasUpper(cs) == \E i \in 1 .. Len(cs) : cs[i] = "A"
Member(x, w) == \E i \in 1 .. Len(x) : x[i] = w

\* The tokens of a text, read off its characters: tokens[k] is the k-th
\* maximal run without whitespace.
IsTokenAt(cs, i, j) ==
    /\ i <= j
    /\ \A m \in i .. j : ~IsSpace(cs[m])
    /\ (i = 1 \/ IsSpace(cs[i - 1]))
    /\ (j = Len(cs) \/ IsSpace(cs[j + 1]))
TokenSpans(cs) == {<<i, j>> \in (1 .. Len(cs)) \X (1 .. Len(cs)) : IsTokenAt(cs, i, j)}
KeptSpans(cs, stopwords) ==
    {sp \in TokenSpans(cs) : Lower(SubSeq(cs, sp[1], sp[2])) \notin stopwords}

\* out is the tokens at the spans S of cs, in the order of cs, with one
\* space between two of them.
IsJoinOf(out, cs, S) ==
    /\ Cardinality(TokenSpans(out)) = Cardinality(S)
    /\ \A sp \in S :
        LET k == Cardinality({q \in S : q[1] <= sp[1]}) IN
        \E o \in TokenSpans(out) :
            /\ Cardinality({q \in TokenSpans(out) : q[1] <= o[1]}) = k
            /\ SubSeq(out, o[1], o[2]) = SubSeq(cs, sp[1], sp[2])
    /\ \A i \in 1 .. Len(out) : IsSpace(out[i]) =>
        /\ out[i] = " "
        /\ 1 < i /\ i < Len(out)
        /\ ~IsSpace(out[i + 1])

C10_StopWordsByLowercasedToken ==
    Returned("clean_stop_words") =>
        /\ ret.ok /\ ret.val.k = "str"
        /\ IsJoinOf(ret.val.s, call.data.s, KeptSpans(call.data.s, call.a))
        /\ (\A w \in call.a : HasUpper(w)) => Split(ret.val.s) = Split(call.data.s)

\* "A a. a" with the stopword "a": the capitalised token and the bare token
\* go, the token with the full stop stays.
C10_Witness ==
    /\ Returned("clean_stop_words")
    /\ call.a = {<<"a">>}
    /\ Member(Split(call.data.s), <<"A">>)
    /\ Member(Split(call.data.s), <<"a", ".">>)
    /\ ret.val = PyStr(<<"a", ".">>)

(***************************************************************************)
(* C11: for every non-empty list data of numbers and every pair (min_val,   *)
(* max_val), minmax_normalize(data, min_val, max_val) does not depend on    *)
(* min_val or max_val, has the length of data, maps each element x to       *)
(* (x - min(data)) / (max(data) - min(data)) - so min(data) to 0, max(data) *)
(* to 1, every output within [0, 1], the order between elements kept - and  *)
(* is all zeros when all elements are equal.                                *)
(***************************************************************************)
\* The smallest and the largest element of a non-empty list of finite numbers.
Elements(data) == {data[i] : i \in 1 .. Len(data)}
Least(data) == CHOOSE m \in Elements(data) : \A x \in Elements(data) : Le(m, x)
Greatest(data) == CHOOSE m \in Elements(data) : \A x \in Elements(data) : Le(x, m)

\* y is the finite float (x - lo) / (hi - lo), for lo < hi.
IsRescaled(y, x, lo, hi) ==
    /\ y.k = "float"
    /\ y.n * x.d * (hi.n * lo.d - lo.n * hi.d) = y.d * hi.d * (x.n * lo.d - lo.n * x.d)

NormalizePost(data, out) ==
    LET lo == Least(data)
        hi == Greatest(data)
    IN  /\ Len(out) = Len(data)
        /\ PyEq(lo, hi) => \A i \in 1 .. Len(out) : out[i] = PyFloat(0, 1)
        /\ Lt(lo, hi) => \A i, j \in 1 .. Len(data) :
            /\ IsRescaled(out[i], data[i], lo, hi)
            /\ Le(PyFloat(0, 1), out[i]) /\ Le(out[i], PyFloat(1, 1))
            /\ PyEq(data[i], lo) => PyEq(out[i], PyInt(0))
            /\ PyEq(data[i], hi) => PyEq(out[i], PyInt(1))
            /\ Lt(data[i], data[j]) <=> Lt(out[i], out[j])

C11_NormalizeByOwnRange ==
    Returned("minmax_normalize") /\ call.data # <<>> =>
        /\ ret.ok
        /\ NormalizePost(call.data, ret.val)
        /\ \A a, b \in NormArgs : minmax_normalize(call.data, a, b) = ret

(***************************************************************************)
(* C12: clip_values is idempotent: for every list data of numbers and every *)
(* pair of thresholds (lo, hi), clip_values(clip_values(data, lo, hi), lo,  *)
(* hi) == clip_values(data, lo, hi).                                        *)
(***************************************************************************)
\* x == y on two lists: equal lengths and items equal pairwise.
ListEq(x, y) ==
    /\ Len(x) = Len(y)
    /\ \A i \in 1 .. Len(x) : PyEq(x[i], y[i])

C12_ClipIdempotent ==
    pc = "again" => ret.ok /\ ListEq(ret.val, watch.val)

\* The first call clipped an element at each threshold, and the second call
\* has returned.
C12_Witness ==
    /\ pc = "again"
    /\ ret.ok
    /\ ~ListEq(watch.val, call.data)
    /\ Lt(call.a, call.b)
    /\ \E i, j \in 1 .. Len(call.data) :
        /\ Lt(call.data[i], call.a) /\ ret.val[i] = call.a
        /\ Lt(call.b, call.data[j]) /\ ret.val[j] = call.b

(***************************************************************************)
(* Spec: a sequential history of lst_shuffle calls in one process.          *)
(***************************************************************************)
Seeds == {PyInt(k) : k \in 0 .. MaxSeed}
SeedArgs == {None} \cup Seeds

\* Lists of n elements that cycle through 1 .. k: pairwise distinct elements
\* (k = n), all equal (k = 1), and in between.
CycleList(n, k) == [i \in 1 .. n |-> PyInt(((i - 1) % k) + 1)]
ShuffleInputs == {CycleList(n, k) : n \in 0 .. MaxLen, k \in 1 .. MaxLen}

NoWatch == [data |-> <<>>, seed |-> None, val |-> <<>>]

Init ==
    /\ gen \in GenState
    /\ call = LibCall("none", <<>>, None, None)
    /\ ret = NoRet
    /\ pc = "idle"
    /\ watch = NoWatch
    /\ Unused(th) /\ Unused(worlds) /\ Unused(heap) /\ Unused(refs)

\* One whole call lst_shuffle(data, seed).  call.b records the state the
\* generator was in when the call began; watch may keep a seeded call.
ShuffleCall ==
    \E data \in ShuffleInputs, seed \in SeedArgs, keep \in BOOLEAN :
        LET r == lst_shuffle(gen, data, seed) IN
        /\ gen' = r.gen
        /\ ret' = Return(r.val)
        /\ call' = LibCall("lst_shuffle", data, seed, PyInt(gen))
        /\ pc' = "done"
        /\ watch' = IF keep /\ seed # None
                    THEN [data |-> data, seed |-> seed, val |-> r.val]
                    ELSE watch
        /\ UNCHANGED <<th, worlds, heap, refs>>

Next == ShuffleCall

Spec == Init /\ [][Next]_vars

(***************************************************************************)
(* C2: in a sequential history of lst_shuffle calls, every call with a      *)
(* supplied seed returns the same permutation as every other call with the  *)
(* same data and seed, whatever calls ran before it: the result depends on  *)
(* (data, seed) only, not on the state the shared generator was left in.    *)
(***************************************************************************)
C2_SeededReproducible ==
    (Returned("lst_shuffle") /\ call.a # None) =>
        /\ (watch.data = call.data /\ watch.seed = call.a) => ret.val = watch.val
        /\ \A g \in GenState : lst_shuffle(g, call.data, call.a).val = ret.val

C2_Witness ==
    /\ Returned("lst_shuffle") /\ call.a # None
    /\ watch.data = call.data /\ watch.seed = call.a
    /\ Len(call.data) = MaxLen /\ call.data = CycleList(MaxLen, MaxLen)
    /\ call.b.n # RandomSeed(call.a)
    /\ ret.val # call.data
    /\ \E g \in GenState : lst_shuffle(g, call.data, None).val # ret.val

(***************************************************************************)
(* C5: from every state of the generator, lst_shuffle(data, seed) returns   *)
(* a permutation of data: same length and the same multiset of elements.    *)
(***************************************************************************)
Count(x, v) == Cardinality({i \in 1 .. Len(x) : x[i] = v})
SameMultiset(x, y) ==
    /\ Len(x) = Len(y)
    /\ \A i \in 1 .. Len(x) : Count(x, x[i]) = Count(y, x[i])

C5_ShufflePermutes ==
    Returned("lst_shuffle") => ret.ok /\ SameMultiset(ret.val, call.data)

C5_Witness ==
    /\ Returned("lst_shuffle")
    /\ Len(call.data) = MaxLen
    /\ \E i, j \in 1 .. Len(call.data) : i # j /\ call.data[i] = call.data[j]
    /\ \E i, j \in 1 .. Len(call.data) : call.data[i] # call.data[j]
    /\ ret.val # call.data

(***************************************************************************)
(* C13: for a list of at least two pairwise distinct elements, lst_shuffle  *)
(* called without a seed returns a list whose order differs from the order  *)
(* of the input: the identity permutation is never returned                 *)
(* (C13_Original).  As stated the claim fails: the call returns the input's *)
(* order exactly when every draw of the shuffle picks the position it is    *)
(* filling, which the generator's state at the call decides                 *)
(* (C13_UnseededIdentityByDraws).                                           *)
(***************************************************************************)
PairwiseDistinct(x) == \A i, j \in 1 .. Len(x) : i # j => x[i] # x[j]

UnseededOnDistinct ==
    /\ Returned("lst_shuffle") /\ call.a = None
    /\ Len(call.data) >= 2 /\ PairwiseDistinct(call.data)

\* From generator state g, the draws for positions i, i - 1, .. 2 each pick
\* the position itself.
RECURSIVE DrawsFixed(_, _)
DrawsFixed(g, i) ==
    i < 2 \/ (RandBelow(g, i) + 1 = i /\ DrawsFixed(GenStep(g), i - 1))

Procs == {1, 2}

Thread(data, seed) == [pc |-> "seed", data |-> data, seed |-> seed, x |-> <<>>, i |-> 0]

ConcInit ==
    /\ gen \in GenState
    /\ th \in [Procs -> {Thread(data, seed) : data \in ShuffleInputs, seed \in Seeds}]
    /\ call = LibCall("lst_shuffle", <<>>, None, None)
    /\ ret = NoRet
    /\ pc = "threads"
    /\ watch = NoWatch
    /\ Unused(worlds) /\ Unused(heap) /\ Unused(refs)

ConcFrame == UNCHANGED <<call, ret, pc, watch, worlds, heap, refs>>

\* if seed is not None: random.seed(seed)
SeedStep(p) ==
    /\ th[p].pc = "seed"
    /\ gen' = IF Seeded(th[p].seed) THEN RandomSeed(th[p].seed) ELSE gen
    /\ th' = [th EXCEPT ![p].pc = "copy"]
    /\ ConcFrame

\* shuffled_data = data[:]
CopyStep(p) ==
    /\ th[p].pc = "copy"
    /\ th' = [th EXCEPT ![p].pc = "shuffle", ![p].x = th[p].data,
                        ![p].i = Len(th[p].data)]
    /\ UNCHANGED gen
    /\ ConcFrame

\* one iteration of random.shuffle(shuffled_data)
ShuffleStep(p) ==
    /\ th[p].pc = "shuffle" /\ th[p].i >= 2
    /\ LET r == ShuffleIter(gen, th[p].x, th[p].i) IN
        /\ gen' = r.gen
        /\ th' = [th EXCEPT ![p].x = r.x, ![p].i = th[p].i - 1]
    /\ ConcFrame

\* return shuffled_data
ReturnStep(p) ==
    /\ th[p].pc = "shuffle" /\ th[p].i < 2
    /\ th' = [th EXCEPT ![p].pc = "done"]
    /\ UNCHANGED gen
    /\ ConcFrame

ConcNext == \E p \in Procs : SeedStep(p) \/ CopyStep(p) \/ ShuffleStep(p) \/ ReturnStep(p)

SpecConc == ConcInit /\ [][ConcNext]_vars

(***************************************************************************)
(* C3: when lst_shuffle calls with supplied seeds run concurrently, their   *)
(* steps interleaved in any order, each call returns the permutation it     *)
(* returns when run alone with the same data and seed.                      *)
(***************************************************************************)
C3_ConcurrentSeededIsolated ==
    \A p \in Procs :
        th[p].pc = "done" =>
            \A g \in GenState : th[p].x = lst_shuffle(g, th[p].data, th[p].seed).val

(***************************************************************************)
(* SpecWorlds: one history of lst_shuffle calls, followed in every          *)
(* execution at once: worlds is the set of states the generator may be in   *)
(* after the history (the entropy it was seeded from at import is any), and *)
(* ret.val the set of lists the last call may have returned.  call.b is the *)
(* seed argument of the call before the last.                               *)
(***************************************************************************)
WorldsInit ==
    /\ worlds = GenState
    /\ call = LibCall("none", <<>>, None, None)
    /\ ret = NoRet
    /\ pc = "idle"
    /\ watch = NoWatch
    /\ Unused(gen) /\ Unused(th) /\ Unused(heap) /\ Unused(refs)

WorldsCall ==
    \E data \in ShuffleInputs, seed \in SeedArgs :
        /\ worlds' = {lst_shuffle(g, data, seed).gen : g \in worlds}
        /\ ret' = Return({lst_shuffle(g, data, seed).val : g \in worlds})
        /\ call' = LibCall("lst_shuffle", data, seed, call.a)
        /\ pc' = "done"
        /\ UNCHANGED <<gen, watch, th, heap, refs>>

WorldsNext == WorldsCall

SpecWorlds == WorldsInit /\ [][WorldsNext]_vars

(***************************************************************************)
(* C4: the permutation an unseeded lst_shuffle call returns is not fixed by *)
(* the earlier calls of the history: for a list with two different          *)
(* elements, two executions of the same history may return different        *)
(* permutations, also after a seeded call.                                  *)
(***************************************************************************)
HasTwoValues(x) == \E i, j \in 1 .. Len(x) : x[i] # x[j]

C4_UnseededNotFixedByHistory ==
    (Returned("lst_shuffle") /\ call.a = None /\ HasTwoValues(call.data)) =>
        Cardinality(ret.val) > 1

(***************************************************************************)
(* SpecHeap: a caller holds a list object `data`, calls a library function  *)
(* on it, and then changes the list it got back.  heap maps the two list    *)
(* objects there can be (the argument, and a list the function built) to    *)
(* their contents; refs holds the caller's references.                      *)
(***************************************************************************)
\* The outcomes the call c may have, the generator being in state g.
LibOutcomes(c, g) ==
    CASE c.f = "clean_values" -> {Return(clean_values(c.data))}
      [] c.f = "fill_values" -> {Return(fill_values(c.data, c.a))}
      [] c.f = "remove_duplicates" -> remove_duplicates(c.data)
      [] c.f = "minmax_normalize" -> {minmax_normalize(c.data, c.a, c.b)}
      [] c.f = "z_score_standardize" -> {z_score_standardize(c.data)}
      [] c.f = "clip_values" -> {clip_values(c.data, c.a, c.b)}
      [] c.f = "lst_to_ints" -> {lst_to_ints(c.data)}
      [] c.f = "log_transform" -> {log_transform(c.data)}
      [] c.f = "lst_flatten" -> {lst_flatten(c.data)}
      [] c.f = "lst_shuffle" -> {Return(lst_shuffle(g, c.data, c.a).val)}

HeapInit ==
    /\ pc = "call"
    /\ ret = NoRet
    /\ gen \in GenState
    /\ Unused(watch) /\ Unused(th) /\ Unused(worlds)
    /\ \/ \E data \in SeqUpTo(MixedVals, MaxLen) :
            call = LibCall("clean_values", data, None, None)
       \/ \E data \in SeqUpTo(MixedVals, MaxLen), f \in FillVals :
            call = LibCall("fill_values", data, f, None)
       \/ \E data \in SeqUpTo(DedupVals, MaxLen) :
            call = LibCall("remove_duplicates", data, None, None)
       \/ \E data \in SeqUpTo(NumVals, MaxLen), lo \in NormArgs, hi \in NormArgs :
            call = LibCall("minmax_normalize", data, lo, hi)
       \/ \E data \in SeqUpTo(NumVals, MaxLen) :
            call = LibCall("z_score_standardize", data, None, None)
       \/ \E data \in SeqUpTo(NumVals, MaxLen), lo \in NormArgs, hi \in NormArgs :
            call = LibCall("clip_values", data, lo, hi)
       \/ \E data \in SeqUpTo(TokenStrs, MaxLen) :
            call = LibCall("lst_to_ints", data, None, None)
       \/ \E data \in SeqUpTo(LogVals, MaxLen) :
            call = LibCall("log_transform", data, None, None)
       \/ \E data \in SeqUpTo(NestedVals, MaxLen) :
            call = LibCall("lst_flatten", data, None, None)
       \/ \E data \in ShuffleInputs, seed \in SeedArgs :
            call = LibCall("lst_shuffle", data, seed, None)
    /\ heap = [arg |-> call.data, built |-> <<>>]
    /\ refs = [data |-> "arg", result |-> "none", orig |-> call.data]

\* result = f(data): the function reads the argument and returns either the
\* argument itself or a list it built.
HeapCall ==
    /\ pc = "call"
    /\ \E out \in LibOutcomes(call, gen) :
        /\ ret' = out
        /\ pc' = IF out.ok THEN "returned" ELSE "raised"
        /\ heap' = IF out.ok /\ ~out.same THEN [heap EXCEPT !.built = out.val] ELSE heap
        /\ refs' = IF ~out.ok THEN refs
                   ELSE [refs EXCEPT !.result = IF out.same THEN refs.data ELSE "built"]
    /\ gen' = IF call.f = "lst_shuffle" THEN lst_shuffle(gen, call.data, call.a).gen
              ELSE gen
    /\ UNCHANGED <<call, watch, th, worlds>>

\* The caller's result.append(v).
MutateResult ==
    /\ pc = "returned"
    /\ heap' = [heap EXCEPT ![refs.result] = Append(@, PyInt(0))]
    /\ pc' = "mutated"
    /\ UNCHANGED <<gen, call, ret, watch, th, worlds, refs>>

HeapNext == HeapCall \/ MutateResult

SpecHeap == HeapInit /\ [][HeapNext]_vars

(***************************************************************************)
(* C6: every library function leaves its input list unchanged and returns  *)
(* a new list that is never the input object, the empty list included: a    *)
(* later change of the result never changes data, and data has the contents *)
(* it had before the call.                                                  *)
(***************************************************************************)
C6_InputUnchangedResultIndependent ==
    /\ heap[refs.data] = refs.orig
    /\ pc \in {"returned", "mutated"} => refs.result # refs.data

(***************************************************************************)
(* SpecCli: one invocation of the command line (src/src/cli.py).  call.f is *)
(* the subcommand, call.data the positional arguments (click hands them to  *)
(* the handler as a tuple of strings), call.a and call.b the values of the  *)
(* handler's options as typed on the command line (None: not given).  ret   *)
(* is the exit code, the label printed and the library call's outcome.      *)
(***************************************************************************)
\* An option declared with an integer default (default=0, default=1) or with
\* type=int is converted by click with int(); a value that is no integer is
\* a usage error.
ClickInt(opt, default) ==
    IF opt = None THEN Return(default)
    ELSE IF IsDecimalStr(opt.s) THEN Return(PyInt(IntOfDigits(opt.s)))
    ELSE Raise("UsageError")

\* stopwords.split(","): the pieces between the commas, empty ones included.
RECURSIVE SplitCommaFrom(_, _)
SplitCommaFrom(cs, cur) ==
    IF cs = <<>> THEN {cur}
    ELSE IF Head(cs) = "," THEN {cur} \cup SplitCommaFrom(Tail(cs), <<>>)
    ELSE SplitCommaFrom(Tail(cs), Append(cur, Head(cs)))

\* set(stopwords.split(",")) if stopwords else set(); the default is "".
StopwordsOption(opt) ==
    IF opt = None \/ opt.s = <<>> THEN {} ELSE SplitCommaFrom(opt.s, <<>>)

\* The process ends with exit code 0 and one line "<label>: <result>" when
\* the handler returns, with exit code 1 when it raises.
CliDone(label, out) ==
    [exit |-> IF out.ok THEN 0 ELSE 1, label |-> IF out.ok THEN label ELSE "", out |-> out]
CliUsageError == [exit |-> 2, label |-> "", out |-> Raise("UsageError")]

ArgNumbers == {PyStr(<<"1">>), PyStr(<<"2">>), PyStr(<<"1", "2">>)}
ArgWords == {PyStr(<<>>), PyStr(<<"1">>), PyStr(<<"a">>)}
ArgSentences == {PyStr(<<"A", " ", "a", ".">>), PyStr(<<"a", "!", " ", "b">>)}
OptNumbers == {None, PyStr(<<"1">>), PyStr(<<"2">>)}
OptFill == {None, PyStr(<<"1">>), PyStr(<<"a">>)}
OptStopwords == {None, PyStr(<<"a">>), PyStr(<<"a", ",", "b">>)}

CliCall(f, args, a, b) == call = LibCall(f, args, a, b)

CliInit ==
    /\ pc = "invoke"
    /\ ret = CliDone("", NoRet)
    /\ gen \in GenState
    /\ Unused(watch) /\ Unused(th) /\ Unused(worlds) /\ Unused(heap) /\ Unused(refs)
    /\ \/ \E args \in SeqUpTo(ArgWords, MaxLen) :
            CliCall("cleaning clean", args, None, None)
       \/ \E args \in SeqUpTo(ArgWords, MaxLen), fv \in OptFill :
            CliCall("cleaning fill", args, fv, None)
       \/ \E args \in SeqUpTo(ArgNumbers, MaxLen), lo \in OptNumbers, hi \in OptNumbers :
            \/ CliCall("numeric normalize", args, lo, hi)
            \/ CliCall("numeric clip", args, lo, hi)
       \/ \E args \in SeqUpTo(ArgNumbers, MaxLen) :
            \/ CliCall("numeric standardize", args, None, None)
            \/ CliCall("numeric to-int", args, None, None)
            \/ CliCall("numeric log-scale", args, None, None)
            \/ CliCall("struct deduplicate", args, None, None)
       \/ \E text \in ArgSentences :
            \/ CliCall("text tokenize", <<text>>, None, None)
            \/ CliCall("text clean-punctuation", <<text>>, None, None)
       \/ \E text \in ArgSentences, sw \in OptStopwords :
            CliCall("text clean-stopwords", <<text>>, sw, None)
       \/ \E args \in SeqUpTo(ArgNumbers, MaxLen), seed \in OptNumbers :
            CliCall("struct shuffle", args, seed, None)

\* The handler of subcommand f ends in r.
CliExit(f, r) ==
    /\ pc = "invoke" /\ call.f = f
    /\ ret' = r
    /\ pc' = "exited"
    /\ UNCHANGED <<call, watch, th, worlds, heap, refs>>

\* data_list = list(data)
DataList == call.data

clean == CliExit("cleaning clean", CliDone("Cleaned Data", Return(clean_values(DataList))))
       /\ UNCHANGED gen

fill ==
    /\ LET fill_value == ClickInt(call.a, PyInt(0)) IN
        CliExit("cleaning fill",
                IF ~fill_value.ok THEN CliUsageError
                ELSE CliDone("Filled Data", Return(fill_values(DataList, fill_value.val))))
    /\ UNCHANGED gen

normalize ==
    /\ LET min_value == ClickInt(call.a, PyInt(0))
           max_value == ClickInt(call.b, PyInt(1))
       IN  CliExit("numeric normalize",
                IF ~min_value.ok \/ ~max_value.ok THEN CliUsageError
                ELSE CliDone("Normalized Data",
                             minmax_normalize(DataList, min_value.val, max_value.val)))
    /\ UNCHANGED gen

standardize ==
    /\ CliExit("numeric standardize",
               CliDone("Standardized Data", z_score_standardize(DataList)))
    /\ UNCHANGED gen

clip ==
    /\ LET min_threshold == ClickInt(call.a, PyInt(0))
           max_threshold == ClickInt(call.b, PyInt(1))
       IN  CliExit("numeric clip",
                IF ~min_threshold.ok \/ ~max_threshold.ok THEN CliUsageError
                ELSE CliDone("Clipped Data",
                             clip_values(DataList, min_threshold.val, max_threshold.val)))
    /\ UNCHANGED gen

to_int ==
    /\ CliExit("numeric to-int", CliDone("Integer Data", lst_to_ints(DataList)))
    /\ UNCHANGED gen

log_scale ==
    /\ CliExit("numeric log-scale", CliDone("Log Scaled Data", log_transform(DataList)))
    /\ UNCHANGED gen

\* The text handlers pass the tuple of arguments itself.
tokenize ==
    /\ CliExit("text tokenize",
               CliDone("Tokenized Data", special_tokenization(PyTuple(call.data))))
    /\ UNCHANGED gen

clean_punctuation ==
    /\ CliExit("text clean-punctuation",
               CliDone("Cleaned Text Data", clean_text(PyTuple(call.data))))
    /\ UNCHANGED gen

clean_stopwords ==
    /\ LET stopwords_list == StopwordsOption(call.a) IN
        CliExit("text clean-stopwords",
                CliDone("Cleaned Text Data",
                        clean_stop_words(PyTuple(call.data), stopwords_list)))
    /\ UNCHANGED gen

shuffle ==
    /\ LET seed == ClickInt(call.a, None)
           r == lst_shuffle(gen, DataList, seed.val)
       IN  /\ CliExit("struct shuffle",
                      IF ~seed.ok THEN CliUsageError
                      ELSE CliDone("Shuffled Data", Return(r.val)))
           /\ gen' = IF seed.ok THEN r.gen ELSE gen

deduplicate ==
    /\ \E out \in remove_duplicates(DataList) :
        CliExit("struct deduplicate", CliDone("Deduplicated Data", out))
    /\ UNCHANGED gen

CliNext ==
    \/ clean \/ fill \/ normalize \/ standardize \/ clip \/ to_int \/ log_scale
    \/ tokenize \/ clean_punctuation \/ clean_stopwords \/ shuffle \/ deduplicate

SpecCli == CliInit /\ [][CliNext]_vars

(***************************************************************************)
(* C8: every subcommand, invoked with well-formed positional strings and    *)
(* well-formed option values (decimal numbers for the numeric commands, one *)
(* sentence for the text commands, any string for --fill_value), calls its  *)
(* library function on the values the strings denote, ends with exit code 0 *)
(* and prints one line "<Label>: <result>" with the function's result.      *)
(***************************************************************************)
C8_CliWellFormedExitsZero ==
    pc = "exited" => ret.exit = 0 /\ ret.out.ok /\ ret.label # ""

=============================================================================
